---- MODULE Spec2Model ----
(***************************************************************************)
(* Model of src/app.py: a Flask proxy in front of the fal API.            *)
(*                                                                         *)
(*   /fal/<path>  fal_proxy -> forward_to_fal: rewrite the headers, issue  *)
(*                one outbound call, relay the upstream response.         *)
(*   /ui/edit     ui_edit -> run_image_edit: persist every uploaded file   *)
(*                to a transient file, upload it, remove it, then invoke  *)
(*                the remote model with the uploaded URLs.                *)
(*                                                                         *)
(* The development server is threaded: every worker handles one request   *)
(* at a time, of either route, and the workers interleave. They share the *)
(* process environment (read-only) and the temporary-file namespace.      *)
(***************************************************************************)
EXTENDS Integers, Sequences, FiniteSets, TLC

\* ------------------------------------------------------------------ bounds

NumWorkers == 2       \* request threads running concurrently
MaxFiles == 2         \* entries of the "images" field of one /ui/edit request
NumTmpStems == 2      \* random stems tempfile can draw for one suffix

Workers == 1..NumWorkers

\* ------------------------------------------------------- process environment

FAL_KEY_ENV == "FAL_KEY"
FAL_SECRET == "abc"

\* os.environ at process start: FAL_KEY unset, set to the empty string, or set.
Environs ==
    { [v \in {} |-> ""], [v \in {FAL_KEY_ENV} |-> ""], [v \in {FAL_KEY_ENV} |-> FAL_SECRET] }

\* Mutant: only an unset variable is refused.
get_fal_key_raises_unset_only(env) == FAL_KEY_ENV \notin DOMAIN env

\* get_fal_key raises RuntimeError when `not key`: None or the empty string.
get_fal_key_raises(env) ==
    \/ FAL_KEY_ENV \notin DOMAIN env
    \/ env[FAL_KEY_ENV] = ""

get_fal_key(env) == env[FAL_KEY_ENV]

MissingKeyMessage == "FAL_KEY is missing"

\* ------------------------------------------------------------------ headers

HeaderNames == {"Authorization", "AUTHORIZATION", "Host", "X-Trace"}

\* The value the client sends under each header name.
InboundValue(k) ==
    CASE k = "Authorization" -> "Bearer client-token"
      [] k = "AUTHORIZATION" -> "Key stolen"
      [] k = "Host"          -> "proxy.local"
      [] OTHER               -> "trace-1"

\* Every set of inbound headers over HeaderNames, as a dict name -> value.
InboundHeaderSets ==
    { [k \in S |-> InboundValue(k)] : S \in SUBSET HeaderNames }

\* str.lower() on the header names of the model.
Lower(k) ==
    CASE k = "Authorization" -> "authorization"
      [] k = "AUTHORIZATION" -> "authorization"
      [] k = "Host"          -> "host"
      [] k = "X-Trace"       -> "x-trace"
      [] OTHER               -> k

StrippedRequestHeaders == {"host", "authorization", "content-length", "connection"}

\* Mutant: the denylist is compared with the header name as sent.
build_forward_headers_case_sensitive(incoming_headers, key) ==
    LET kept == { k \in DOMAIN incoming_headers : k \notin StrippedRequestHeaders }
    IN  [k \in kept \cup {"Authorization"} |->
            IF k = "Authorization" THEN "Key " \o key ELSE incoming_headers[k]]

\* build_forward_headers, once get_fal_key has returned `key`.
build_forward_headers(incoming_headers, key) ==
    LET kept == { k \in DOMAIN incoming_headers : Lower(k) \notin StrippedRequestHeaders }
    IN  [k \in kept \cup {"Authorization"} |->
            IF k = "Authorization" THEN "Key " \o key ELSE incoming_headers[k]]


\* ------------------------------------------------------------------ state

VARIABLES
    environ,       \* os.environ, fixed at process start
    fs,            \* names of the files present in the temporary directory
    pc,            \* per worker: where its handler is
    route,         \* per worker: the route of the request it handles
    inbound,       \* per worker: request.headers of a /fal request
    outbound,      \* per worker: the outbound calls issued for the request
    upstream,      \* per worker: how the outbound call ended
    files,         \* per worker: entries of `files` the loop has not reached
    image_urls,    \* per worker: image_urls of run_image_edit
    tmp_name,      \* per worker: tmp_name of the current loop iteration
    owned,         \* per worker: transient files it created and not yet removed
    valid_files,   \* per worker: entries that passed the filename test
    upload_calls,  \* per worker: calls of fal_client.upload_file
    form,          \* per worker: prompt and parsed extra_json of the form
    run_calls,     \* per worker: the calls of fal_client.run
    failure,       \* per worker: what made the request fail, "none" if nothing
    response       \* per worker: what the handler returned

fwdVars == <<inbound, outbound, upstream>>
editVars == <<files, image_urls, tmp_name, owned, valid_files, upload_calls, form, run_calls>>
vars == <<environ, fs, pc, route, fwdVars, editVars, failure, response>>

NoHeaders == [k \in {} |-> ""]
NoUpstream == [kind |-> "none", status |-> 0, content |-> ""]
NoResponse == [kind |-> "none", status |-> 0, body |-> ""]
NoName == [stem |-> 0, suffix |-> ""]
NoForm == [prompt |-> "", extra |-> [isdict |-> FALSE, truthy |-> FALSE, val |-> <<>>]]

Init ==
    /\ environ \in Environs
    /\ fs = {}
    /\ pc = [w \in Workers |-> "idle"]
    /\ route = [w \in Workers |-> "none"]
    /\ inbound = [w \in Workers |-> NoHeaders]
    /\ outbound = [w \in Workers |-> <<>>]
    /\ upstream = [w \in Workers |-> NoUpstream]
    /\ files = [w \in Workers |-> <<>>]
    /\ image_urls = [w \in Workers |-> <<>>]
    /\ tmp_name = [w \in Workers |-> NoName]
    /\ owned = [w \in Workers |-> {}]
    /\ valid_files = [w \in Workers |-> 0]
    /\ upload_calls = [w \in Workers |-> 0]
    /\ form = [w \in Workers |-> NoForm]
    /\ run_calls = [w \in Workers |-> <<>>]
    /\ failure = [w \in Workers |-> "none"]
    /\ response = [w \in Workers |-> NoResponse]

\* The handler of worker w returns `resp`; `why` is the cause of a failure.
Return(w, resp, why) ==
    /\ pc' = [pc EXCEPT ![w] = "done"]
    /\ response' = [response EXCEPT ![w] = resp]
    /\ failure' = [failure EXCEPT ![w] = why]

\* jsonify(body), status
JsonResponse(body, status) == [kind |-> "json", status |-> status, body |-> body]

\* An exception that leaves the view function: Flask answers it itself.
UnhandledException(message) == [kind |-> "unhandled_exception", status |-> 500, body |-> message]

\* ---------------------------------------------------------------- forwarder

UpstreamStatuses == {200, 404, 500}
UpstreamBodies == {"{\"images\":[{\"url\":\"http://x/y.png\"}]}", "{\"detail\":\"upstream\"}"}
TransportErrors == {"ConnectionError", "ReadTimeout"}

\* requests.request(..., headers=fal_headers, ...)
OutboundCall(fal_headers) == [headers |-> fal_headers]

\* Mutant: an upstream 5xx is reported as a gateway error of the proxy.
RelayGatewayError(resp) ==
    IF resp.status >= 500
        THEN [kind |-> "raw", status |-> 502, body |-> resp.content]
        ELSE [kind |-> "raw", status |-> resp.status, body |-> resp.content]

\* Response(resp.content, status=resp.status_code, headers=clean_headers)
Relay(resp) == [kind |-> "raw", status |-> resp.status, body |-> resp.content]

\* Mutant: the outbound call is issued again after a transport failure.
HandleTransportErrorRetry(w, e) ==
    /\ outbound' = [outbound EXCEPT ![w] = Append(@, @[1])]
    /\ upstream' = [upstream EXCEPT ![w] = [kind |-> "error", status |-> 0, content |-> e]]
    /\ Return(w, JsonResponse([error |-> "request_to_fal_failed", detail |-> e], 502), "transport")
    /\ UNCHANGED inbound

\* except Exception as e: return jsonify({...}), 502
HandleTransportError(w, e) ==
    /\ upstream' = [upstream EXCEPT ![w] = [kind |-> "error", status |-> 0, content |-> e]]
    /\ Return(w, JsonResponse([error |-> "request_to_fal_failed", detail |-> e], 502), "transport")
    /\ UNCHANGED <<inbound, outbound>>

\* fal_proxy -> forward_to_fal up to requests.request: the headers are built
\* (get_fal_key raises without a key) and the outbound call is issued.
FalProxy(w) ==
    /\ pc[w] = "idle"
    /\ \E headers \in InboundHeaderSets :
        /\ route' = [route EXCEPT ![w] = "fal"]
        /\ IF get_fal_key_raises(environ)
             THEN /\ Return(w, UnhandledException(MissingKeyMessage), "missing_key")
                  /\ UNCHANGED fwdVars
             ELSE /\ inbound' = [inbound EXCEPT ![w] = headers]
                  /\ outbound' = [outbound EXCEPT ![w] =
                        <<OutboundCall(build_forward_headers(headers, get_fal_key(environ)))>>]
                  /\ pc' = [pc EXCEPT ![w] = "awaiting"]
                  /\ UNCHANGED <<upstream, failure, response>>
    /\ UNCHANGED <<environ, fs, editVars>>

\* requests.request returns the upstream response, whatever its status.
UpstreamResponds(w) ==
    /\ pc[w] = "awaiting"
    /\ \E status \in UpstreamStatuses, content \in UpstreamBodies :
        LET resp == [kind |-> "response", status |-> status, content |-> content]
        IN  /\ upstream' = [upstream EXCEPT ![w] = resp]
            /\ Return(w, Relay(resp), "none")
    /\ UNCHANGED <<environ, fs, route, inbound, outbound, editVars>>

\* requests.request raises (DNS, connect, timeout).
TransportFails(w) ==
    /\ pc[w] = "awaiting"
    /\ \E e \in TransportErrors : HandleTransportError(w, e)
    /\ UNCHANGED <<environ, fs, route, editVars>>


\* ------------------------------------------------------------- upload helper

\* Filenames of the uploaded entries; "" is an entry without a filename
\* (FileStorage is falsy exactly when its filename is empty).
FileNames == {"", "a.jpg", "b"}

\* request.files.getlist("images"): up to MaxFiles entries.
FileLists == UNION { [1..n -> FileNames] : n \in 0..MaxFiles }

\* os.path.splitext(filename)[1]
SplitExt(filename) == IF filename = "a.jpg" THEN ".jpg" ELSE ""

\* os.path.splitext(file_storage.filename)[1] or ".png"
Suffix(filename) == IF SplitExt(filename) = "" THEN ".png" ELSE SplitExt(filename)

\* The names tempfile can generate for a suffix.
TmpNames(suffix) == { [stem |-> s, suffix |-> suffix] : s \in 1..NumTmpStems }

\* Mutant: the name is drawn without the exclusive create.
NamedTemporaryFileNoExcl(fsys, suffix) == TmpNames(suffix)

\* tempfile.NamedTemporaryFile(delete=False, suffix=suffix): mkstemp opens the
\* name with O_EXCL, so it returns a name that is not present yet.
NamedTemporaryFile(fsys, suffix) == TmpNames(suffix) \ fsys

\* os.remove(name), its OSError (the file is not there) swallowed.
os_remove(fsys, name) == fsys \ {name}

Models == {"", "fal-ai/nano-banana/edit"}
Prompts == {"", "a cat"}

\* The values of the form field extra_json, and json.loads on them.
ExtraJsonInputs ==
    {"", "{oops", "[1]", "{\"seed\":7}", "{\"prompt\":\"a dog\",\"image_urls\":[9]}"}

\* extra_json = request.form.get("extra_json") or "{}"; json.loads(extra_json),
\* {} when it raises. isdict: isinstance(extra, dict); truthy: bool(extra).
ParseExtra(extra_json) ==
    CASE extra_json = "[1]" ->
            [isdict |-> FALSE, truthy |-> TRUE, val |-> <<1>>]
      [] extra_json = "{\"seed\":7}" ->
            [isdict |-> TRUE, truthy |-> TRUE, val |-> [seed |-> 7]]
      [] extra_json = "{\"prompt\":\"a dog\",\"image_urls\":[9]}" ->
            [isdict |-> TRUE, truthy |-> TRUE, val |-> [prompt |-> "a dog", image_urls |-> <<9>>]]
      [] OTHER ->
            [isdict |-> TRUE, truthy |-> FALSE, val |-> <<>>]

\* dict.update: the keys of `other` win.
DictUpdate(d, other) ==
    [k \in DOMAIN d \cup DOMAIN other |-> IF k \in DOMAIN other THEN other[k] ELSE d[k]]

\* Mutant: the defaults are applied on top of the caller's parameters.
BuildArgumentsDefaultsWin(prompt, urls, extra_args) ==
    LET extra == IF extra_args.truthy /\ extra_args.isdict THEN extra_args.val ELSE <<>>
    IN  DictUpdate(extra, [prompt |-> prompt, image_urls |-> urls])

\* arguments = {"prompt": prompt, "image_urls": image_urls}, then
\* arguments.update(extra_args) if extra_args is a non-empty dict.
BuildArguments(prompt, urls, extra_args) ==
    LET arguments == [prompt |-> prompt, image_urls |-> urls]
    IN  IF extra_args.truthy /\ extra_args.isdict
            THEN DictUpdate(arguments, extra_args.val)
            ELSE arguments

\* What fal_client.run returns: a dict, or something that is not a dict.
RunResults ==
    { [isdict |-> TRUE, val |-> [images |-> "http://x/y.png"]],
      [isdict |-> FALSE, val |-> <<"http://x/y.png">>] }

\* if isinstance(result, dict): result["_debug_image_urls"] = image_urls
WithDebug(result, urls) ==
    IF result.isdict THEN DictUpdate(result.val, [_debug_image_urls |-> urls]) ELSE result.val

\* Mutant: the exception of run_image_edit leaves ui_edit.
EditFailedUnhandled(detail) == UnhandledException(detail)

\* except Exception as e in ui_edit
EditFailed(detail) == JsonResponse([error |-> "edit_failed", detail |-> detail], 500)

\* The URL fal_client.upload_file returns for the n-th upload of a request.
UploadedUrl(n) == n


\* ui_edit up to the loop of run_image_edit: the validation of the form, then
\* fal_client.api_key = get_fal_key(). The fields prompt and extra_json are
\* drawn where run_image_edit first uses them (InvokeModel): the form does not
\* change during the request.
UiEdit(w) ==
    /\ pc[w] = "idle"
    /\ route' = [route EXCEPT ![w] = "ui_edit"]
    /\ \E model \in Models, fl \in FileLists :
        IF fl = <<>> THEN
            /\ Return(w, JsonResponse([error |-> "missing_images"], 400), "validation")
            /\ UNCHANGED files
        ELSE IF model = "" THEN
            /\ Return(w, JsonResponse([error |-> "missing_model"], 400), "validation")
            /\ UNCHANGED files
        ELSE IF get_fal_key_raises(environ) THEN
            /\ Return(w, EditFailed(MissingKeyMessage), "missing_key")
            /\ UNCHANGED files
        ELSE
            /\ files' = [files EXCEPT ![w] = fl]
            /\ pc' = [pc EXCEPT ![w] = "loop"]
            /\ UNCHANGED <<failure, response>>
    /\ UNCHANGED <<environ, fs, fwdVars, image_urls, tmp_name, owned, valid_files,
                   upload_calls, form, run_calls>>

\* for file_storage in files: an entry without a filename is skipped.
SkipFile(w) ==
    /\ pc[w] = "loop"
    /\ files[w] # <<>>
    /\ Head(files[w]) = ""
    /\ files' = [files EXCEPT ![w] = Tail(@)]
    /\ UNCHANGED <<environ, fs, pc, route, fwdVars, image_urls, tmp_name, owned,
                   valid_files, upload_calls, form, run_calls, failure, response>>

\* tmp_file = tempfile.NamedTemporaryFile(delete=False, suffix=suffix);
\* tmp_name = tmp_file.name; tmp_file.close(): the empty file stays.
CreateTmp(w) ==
    /\ pc[w] = "loop"
    /\ files[w] # <<>>
    /\ Head(files[w]) # ""
    /\ \E name \in NamedTemporaryFile(fs, Suffix(Head(files[w]))) :
        /\ fs' = fs \cup {name}
        /\ tmp_name' = [tmp_name EXCEPT ![w] = name]
        /\ owned' = [owned EXCEPT ![w] = @ \cup {name}]
    /\ files' = [files EXCEPT ![w] = Tail(@)]
    /\ valid_files' = [valid_files EXCEPT ![w] = @ + 1]
    /\ pc' = [pc EXCEPT ![w] = "created"]
    /\ UNCHANGED <<environ, route, fwdVars, image_urls, upload_calls, form, run_calls,
                   failure, response>>

\* NamedTemporaryFile raises (no usable name is left, or the directory cannot
\* be written): nothing is created.
CreateTmpRaises(w) ==
    /\ pc[w] = "loop"
    /\ files[w] # <<>>
    /\ Head(files[w]) # ""
    /\ files' = [files EXCEPT ![w] = <<>>]
    /\ valid_files' = [valid_files EXCEPT ![w] = @ + 1]
    /\ Return(w, EditFailed("No usable temporary file name found"), "tempfile")
    /\ UNCHANGED <<environ, fs, route, fwdVars, image_urls, tmp_name, owned,
                   upload_calls, form, run_calls>>

\* file_storage.save(tmp_name) returns.
Save(w) ==
    /\ pc[w] = "created"
    /\ pc' = [pc EXCEPT ![w] = "saved"]
    /\ UNCHANGED <<environ, fs, route, fwdVars, editVars, failure, response>>

\* file_storage.save(tmp_name) raises: the statement is outside the try, the
\* exception leaves run_image_edit with the file in place.
SaveRaises(w) ==
    /\ pc[w] = "created"
    /\ files' = [files EXCEPT ![w] = <<>>]
    /\ tmp_name' = [tmp_name EXCEPT ![w] = NoName]
    /\ Return(w, EditFailed("No space left on device"), "save")
    /\ UNCHANGED <<environ, fs, route, fwdVars, image_urls, owned, valid_files,
                   upload_calls, form, run_calls>>

\* Mutant: the removal is skipped.
RemoveTmpSkipped(w) ==
    /\ tmp_name' = [tmp_name EXCEPT ![w] = NoName]
    /\ UNCHANGED <<fs, owned>>

\* finally: try: os.remove(tmp_name) except OSError: pass
RemoveTmp(w) ==
    /\ fs' = os_remove(fs, tmp_name[w])
    /\ owned' = [owned EXCEPT ![w] = @ \ {tmp_name[w]}]
    /\ tmp_name' = [tmp_name EXCEPT ![w] = NoName]

\* Mutant: the URL is put in front of image_urls.
AppendUrlInFront(urls, url) == <<url>> \o urls

\* image_urls.append(url)
AppendUrl(urls, url) == Append(urls, url)

\* url = fal_client.upload_file(tmp_name) returns; image_urls.append(url);
\* finally the file is removed.
UploadReturns(w) ==
    /\ pc[w] = "saved"
    /\ upload_calls' = [upload_calls EXCEPT ![w] = @ + 1]
    /\ image_urls' = [image_urls EXCEPT ![w] = AppendUrl(@, UploadedUrl(upload_calls[w] + 1))]
    /\ RemoveTmp(w)
    /\ pc' = [pc EXCEPT ![w] = "loop"]
    /\ UNCHANGED <<environ, route, fwdVars, files, valid_files, form, run_calls,
                   failure, response>>

\* fal_client.upload_file(tmp_name) raises; finally the file is removed and
\* the exception leaves run_image_edit.
UploadRaises(w) ==
    /\ pc[w] = "saved"
    /\ upload_calls' = [upload_calls EXCEPT ![w] = @ + 1]
    /\ RemoveTmp(w)
    /\ files' = [files EXCEPT ![w] = <<>>]
    /\ Return(w, EditFailed("upload failed"), "upload")
    /\ UNCHANGED <<environ, route, fwdVars, image_urls, valid_files, form, run_calls>>

\* Mutant: the model is invoked whatever image_urls holds.
NoImagesUnchecked(urls) == FALSE

\* if not image_urls
NoImages(urls) == urls = <<>>

\* After the loop: raise without uploaded images, else build the arguments
\* and call fal_client.run(model_id, arguments=arguments).
InvokeModel(w) ==
    /\ pc[w] = "loop"
    /\ files[w] = <<>>
    /\ IF NoImages(image_urls[w])
         THEN /\ Return(w, EditFailed("No valid images were uploaded"), "no_valid_images")
              /\ UNCHANGED <<form, run_calls>>
         ELSE \E prompt \in Prompts, extra_json \in ExtraJsonInputs :
                LET extra == ParseExtra(extra_json)
                IN  /\ form' = [form EXCEPT ![w] = [prompt |-> prompt, extra |-> extra]]
                    /\ run_calls' = [run_calls EXCEPT ![w] =
                          Append(@, BuildArguments(prompt, image_urls[w], extra))]
                    /\ pc' = [pc EXCEPT ![w] = "running"]
                    /\ UNCHANGED <<failure, response>>
    /\ UNCHANGED <<environ, fs, route, fwdVars, files, image_urls, tmp_name, owned,
                   valid_files, upload_calls>>

\* fal_client.run returns; return jsonify(result).
ModelReturns(w) ==
    /\ pc[w] = "running"
    /\ \E result \in RunResults :
        Return(w, JsonResponse(WithDebug(result, image_urls[w]), 200), "none")
    /\ UNCHANGED <<environ, fs, route, fwdVars, editVars>>

\* fal_client.run raises.
ModelRaises(w) ==
    /\ pc[w] = "running"
    /\ Return(w, EditFailed("model failed"), "model")
    /\ UNCHANGED <<environ, fs, route, fwdVars, editVars>>

\* The response is sent and the worker takes the next request: nothing of
\* the request survives but the files it left in the temporary directory.
Finish(w) ==
    /\ pc[w] = "done"
    /\ pc' = [pc EXCEPT ![w] = "idle"]
    /\ route' = [route EXCEPT ![w] = "none"]
    /\ inbound' = [inbound EXCEPT ![w] = NoHeaders]
    /\ outbound' = [outbound EXCEPT ![w] = <<>>]
    /\ upstream' = [upstream EXCEPT ![w] = NoUpstream]
    /\ files' = [files EXCEPT ![w] = <<>>]
    /\ image_urls' = [image_urls EXCEPT ![w] = <<>>]
    /\ tmp_name' = [tmp_name EXCEPT ![w] = NoName]
    /\ owned' = [owned EXCEPT ![w] = {}]
    /\ valid_files' = [valid_files EXCEPT ![w] = 0]
    /\ upload_calls' = [upload_calls EXCEPT ![w] = 0]
    /\ form' = [form EXCEPT ![w] = NoForm]
    /\ run_calls' = [run_calls EXCEPT ![w] = <<>>]
    /\ failure' = [failure EXCEPT ![w] = "none"]
    /\ response' = [response EXCEPT ![w] = NoResponse]
    /\ UNCHANGED <<environ, fs>>

\* One step of the handler worker w runs.
Step(w) ==
    \/ FalProxy(w)
    \/ UpstreamResponds(w)
    \/ TransportFails(w)
    \/ UiEdit(w)
    \/ SkipFile(w)
    \/ CreateTmp(w)
    \/ CreateTmpRaises(w)
    \/ Save(w)
    \/ SaveRaises(w)
    \/ UploadReturns(w)
    \/ UploadRaises(w)
    \/ InvokeModel(w)
    \/ ModelReturns(w)
    \/ ModelRaises(w)
    \/ Finish(w)

\* app.run(port=5000, debug=True): the threaded development server, the
\* handlers of the workers interleave step by step.
Next == \E w \in Workers : Step(w)

Spec == Init /\ [][Next]_vars

\* No other worker has a request in flight.
Alone(w) == \A v \in Workers \ {w} : pc[v] = "idle"

\* The same server with one request in flight at a time: a worker steps only
\* while every other worker is idle.
SerialNext ==
    \E w \in Workers :
        \/ Alone(w) /\ FalProxy(w)
        \/ Alone(w) /\ UpstreamResponds(w)
        \/ Alone(w) /\ TransportFails(w)
        \/ Alone(w) /\ UiEdit(w)
        \/ Alone(w) /\ SkipFile(w)
        \/ Alone(w) /\ CreateTmp(w)
        \/ Alone(w) /\ CreateTmpRaises(w)
        \/ Alone(w) /\ Save(w)
        \/ Alone(w) /\ SaveRaises(w)
        \/ Alone(w) /\ UploadReturns(w)
        \/ Alone(w) /\ UploadRaises(w)
        \/ Alone(w) /\ InvokeModel(w)
        \/ Alone(w) /\ ModelReturns(w)
        \/ Alone(w) /\ ModelRaises(w)
        \/ Alone(w) /\ Finish(w)

SerialSpec == Init /\ [][SerialNext]_vars

\* ------------------------------------------------------------------ claims

\* FAL_KEY is set to a non-empty value.
KeyConfigured == FAL_KEY_ENV \in DOMAIN environ /\ environ[FAL_KEY_ENV] # ""

\* {error: <code>, detail?: <message>}
IsErrorEnvelope(r) ==
    /\ r.kind = "json"
    /\ r.status >= 400
    /\ "error" \in DOMAIN r.body
    /\ DOMAIN r.body \subseteq {"error", "detail"}

\* C1: with the key set, every outbound call carries Authorization = "Key <secret>",
\* no other spelling of the Authorization header is forwarded, and no value of an
\* inbound Authorization header appears in the outbound headers.
C1_AuthorizationOverridden ==
    KeyConfigured =>
        \A w \in Workers : \A i \in 1..Len(outbound[w]) :
            LET h == outbound[w][i].headers
            IN  /\ "Authorization" \in DOMAIN h
                /\ h["Authorization"] = "Key " \o environ[FAL_KEY_ENV]
                /\ \A k \in DOMAIN h :
                    /\ Lower(k) = "authorization" => k = "Authorization"
                    /\ \A k2 \in DOMAIN inbound[w] :
                        Lower(k2) = "authorization" => h[k] # inbound[w][k2]

\* C1 witness: a call is in flight for a request that carried Authorization
\* under two spellings.
C1_Witness ==
    \E w \in Workers :
        /\ pc[w] = "awaiting"
        /\ Len(outbound[w]) = 1
        /\ {"Authorization", "AUTHORIZATION"} \subseteq DOMAIN inbound[w]

\* C2: with FAL_KEY unset or empty no outbound call is ever issued, and a
\* forwarding attempt ends with the RuntimeError of get_fal_key.
C2_NoCallWithoutKey ==
    ~KeyConfigured =>
        \A w \in Workers :
            /\ outbound[w] = <<>>
            /\ pc[w] # "awaiting"
            /\ upstream[w].kind = "none"
            /\ (pc[w] = "done" /\ route[w] = "fal") =>
                    response[w] = UnhandledException(MissingKeyMessage)

\* C2 witness: a forwarding attempt has ended with FAL_KEY set to "".
C2_Witness ==
    \E w \in Workers :
        /\ FAL_KEY_ENV \in DOMAIN environ
        /\ environ[FAL_KEY_ENV] = ""
        /\ pc[w] = "done"
        /\ route[w] = "fal"

\* C3 as stated: every failed request, on both routes, ends with the JSON
\* envelope.
C3_AllFailuresEnveloped ==
    \A w \in Workers :
        (pc[w] = "done" /\ failure[w] # "none") => IsErrorEnvelope(response[w])

\* C3 amended: every failed request ends with the JSON envelope, except a
\* /fal request without the key, whose RuntimeError leaves the handler.
C3_FailuresEnvelopedExceptForwarderKey ==
    \A w \in Workers :
        (pc[w] = "done" /\ failure[w] # "none") =>
            IF route[w] = "fal" /\ failure[w] = "missing_key"
                THEN response[w].kind = "unhandled_exception"
                ELSE IsErrorEnvelope(response[w])

\* C3 witness: an /ui/edit request has failed in fal_client.upload_file.
C3_Witness ==
    \E w \in Workers :
        /\ pc[w] = "done"
        /\ route[w] = "ui_edit"
        /\ failure[w] = "upload"

\* C4: once the upload of a file was attempted its transient file is gone:
\* the request owns no transient file at the head of the loop, while the
\* model runs, or when the upload exception has left run_image_edit.
C4_TransientRemovedAfterUpload ==
    \A w \in Workers :
        (\/ pc[w] \in {"loop", "running"}
         \/ pc[w] = "done" /\ failure[w] \in {"upload", "model", "none"})
            => owned[w] = {}

\* C4 witness: the second upload of a request has thrown.
C4_Witness ==
    \E w \in Workers :
        /\ pc[w] = "done"
        /\ failure[w] = "upload"
        /\ upload_calls[w] = 2

\* C5: a request with no valid file uploads nothing, never invokes the
\* model, and ends with an error.
C5_NoValidFilesNoInvocation ==
    \A w \in Workers :
        (route[w] = "ui_edit" /\ valid_files[w] = 0) =>
            /\ upload_calls[w] = 0
            /\ run_calls[w] = <<>>
            /\ pc[w] # "running"
            /\ pc[w] = "done" => IsErrorEnvelope(response[w])

\* C5 witness: run_image_edit has skipped every entry and raised.
C5_Witness ==
    \E w \in Workers :
        /\ pc[w] = "done"
        /\ failure[w] = "no_valid_images"
        /\ valid_files[w] = 0

\* C6: a forwarded request with the key set issues exactly one outbound
\* call; a transport failure ends it with 502 request_to_fal_failed.
C6_ExactlyOneCallNoRetry ==
    \A w \in Workers :
        /\ Len(outbound[w]) <= 1
        /\ (KeyConfigured /\ route[w] = "fal") => Len(outbound[w]) = 1
        /\ upstream[w].kind = "error" =>
            /\ pc[w] = "done"
            /\ response[w].kind = "json"
            /\ response[w].status = 502
            /\ "error" \in DOMAIN response[w].body
            /\ response[w].body["error"] = "request_to_fal_failed"

\* C6 witness: the outbound call has raised.
C6_Witness ==
    \E w \in Workers : pc[w] = "done" /\ upstream[w].kind = "error"

\* C7: an upstream response is relayed with its status and its body.
C7_UpstreamRelayed ==
    \A w \in Workers :
        upstream[w].kind = "response" =>
            /\ pc[w] = "done"
            /\ response[w].kind = "raw"
            /\ response[w].status = upstream[w].status
            /\ response[w].body = upstream[w].content

\* C7 witness: the upstream has answered 500.
C7_Witness ==
    \E w \in Workers : upstream[w].kind = "response" /\ upstream[w].status = 500

\* The keys the caller supplied in extra_json, when it parsed to a dict.
CallerKeys(w) == IF form[w].extra.isdict THEN DOMAIN form[w].extra.val ELSE {}

\* C8: the arguments of the model call hold the caller's value for every
\* caller key, and prompt / the URLs in upload order for the others.
C8_ArgumentsMerged ==
    \A w \in Workers :
        pc[w] = "running" =>
            LET arguments == run_calls[w][1]
            IN  /\ Len(run_calls[w]) = 1
                /\ image_urls[w] = [i \in 1..upload_calls[w] |-> UploadedUrl(i)]
                /\ DOMAIN arguments = {"prompt", "image_urls"} \cup CallerKeys(w)
                /\ \A k \in CallerKeys(w) : arguments[k] = form[w].extra.val[k]
                /\ "prompt" \notin CallerKeys(w) => arguments["prompt"] = form[w].prompt
                /\ "image_urls" \notin CallerKeys(w) =>
                        arguments["image_urls"] = image_urls[w]

\* C8 witness: the model runs on two uploads with a caller-supplied prompt.
C8_Witness ==
    \E w \in Workers :
        /\ pc[w] = "running"
        /\ Len(image_urls[w]) = 2
        /\ "prompt" \in CallerKeys(w)

\* C9 as stated: when run_image_edit has finished, in any way, the request
\* has left no transient file behind.
C9_TransientDeletedOnEveryExit ==
    \A w \in Workers : pc[w] = "done" => owned[w] = {}

\* A worker holds a transient path from NamedTemporaryFile to os.remove.
Holding(w) == pc[w] \in {"created", "saved"}

\* C10: the path a request holds exists, and no other request holds or owns it.
C10_UniqueTransientNames ==
    \A w \in Workers :
        /\ Holding(w) => tmp_name[w] \in fs /\ tmp_name[w] \in owned[w]
        /\ owned[w] \subseteq fs
        /\ \A v \in Workers \ {w} :
            /\ owned[v] \cap owned[w] = {}
            /\ (Holding(v) /\ Holding(w)) => tmp_name[v] # tmp_name[w]

\* C10 witness: two requests hold transient files of the same suffix.
C10_Witness ==
    \E w \in Workers : \E v \in Workers \ {w} :
        /\ Holding(w)
        /\ Holding(v)
        /\ tmp_name[w].suffix = tmp_name[v].suffix

====
